---- MODULE Spec2Model ----
(***************************************************************************)
(* NavShiksha RAG chatbot: the knowledge-base flattener, the TF-IDF        *)
(* retriever, the context assembler and the Chatbot with its conversation  *)
(* history and its module-level singletons, as a state machine.            *)
(*                                                                         *)
(* Python strings are TLA+ strings (Len, \o and SubSeq work on them);      *)
(* Python lists are sequences; a dict read with .get() is a function on    *)
(* its keys; a dict that the code iterates with .items() is a sequence of  *)
(* <<key, value>> pairs in the file's order.  Optional[int] is a sequence  *)
(* of length at most one (<<>> is None).                                   *)
(***************************************************************************)
EXTENDS Integers, Sequences, FiniteSets, TLC

(***************************************************************************)
(* Python built-ins used by the code.                                      *)
(***************************************************************************)
Min(a, b) == IF a <= b THEN a ELSE b

Max(a, b) == IF a >= b THEN a ELSE b

\* dict.get(k, default)
Get(d, k, default) == IF k \in DOMAIN d THEN d[k] ELSE default

\* sep.join(parts)
RECURSIVE Join(_, _)
Join(sep, parts) ==
  IF Len(parts) = 0 THEN ""
  ELSE IF Len(parts) = 1 THEN parts[1]
  ELSE parts[1] \o sep \o Join(sep, Tail(parts))

\* [f(x) for x in xs]
MapSeq(f(_), xs) == [i \in 1..Len(xs) |-> f(xs[i])]

\* the concatenation of a sequence of lists (list.extend / append in a loop)
RECURSIVE Concat(_)
Concat(xss) == IF Len(xss) = 0 THEN <<>> ELSE Head(xss) \o Concat(Tail(xss))

\* xs[::-1]
Reverse(xs) == [i \in 1..Len(xs) |-> xs[Len(xs) + 1 - i]]

\* xs[start:] with Python's rule for a negative start; -0 is 0, so xs[-0:]
\* is the whole list.
SliceFrom(xs, start) ==
  LET n == Len(xs)
      from == IF start < 0 THEN Max(n + start, 0) ELSE Min(start, n)
  IN  SubSeq(xs, from + 1, n)

\* xs[:stop] for stop >= 0
SliceTo(xs, stop) == SubSeq(xs, 1, Min(stop, Len(xs)))

\* s repeated n times (s * n), by halves
RECURSIVE Rep(_, _)
Rep(s, n) ==
  IF n = 0 THEN ""
  ELSE IF n = 1 THEN s
  ELSE LET half == Rep(s, n \div 2)
       IN  half \o half \o (IF n % 2 = 1 THEN s ELSE "")

(***************************************************************************)
(* knowledge_processor.py: create_chunks.  kb is the parsed                *)
(* knowledge_base.json.                                                    *)
(***************************************************************************)
Chunk(category, text) == [category |-> category, text |-> text]

ProjectChunks(kb) ==
  LET project == Get(kb, "project", <<>>)
  IN  << Chunk("Project Overview",
           "GyaanSetu is " \o Get(project, "description", "")
           \o ". Tagline: " \o Get(project, "tagline", "")
           \o ". Version: " \o Get(project, "version", "")
           \o ". Type: " \o Get(project, "type", "") \o ".") >>

ArchitectureChunks(kb) ==
  LET arch == Get(kb, "architecture", <<>>)
      TechItem(kv) == kv[1] \o ": " \o kv[2]
      ComponentChunk(component) ==
        LET tech == Get(component, "technology", <<>>)
            tech_str == Join(", ", MapSeq(TechItem, tech))
        IN  Chunk("Architecture",
              "Component: " \o Get(component, "name", "")
              \o " - Type: " \o Get(component, "type", "")
              \o ". Technologies: " \o tech_str \o ".")
  IN  MapSeq(ComponentChunk, Get(arch, "components", <<>>))

UserManagementChunks(features) ==
  LET user_mgmt == Get(features, "userManagement", <<>>)
      RoleChunk(role_info) ==
        Chunk("User Management",
          "User Role: " \o Get(role_info, "role", "")
          \o ". Capabilities: "
          \o Join(", ", Get(role_info, "capabilities", <<>>)) \o ".")
  IN  MapSeq(RoleChunk, Get(user_mgmt, "roles", <<>>))

\* the loop shared by courseManagement, collaborativeWhiteboard,
\* audioVideoClasses and seminarManagement: one chunk per named feature
\* (the seminar loop skips entries that are not dicts, line 146; the
\* documents of the model have none)
FeatureChunks(section, category, label) ==
  LET FeatureChunk(feature) ==
        Chunk(category,
          label \o ": " \o Get(feature, "name", "")
          \o ". Details: " \o Join(", ", Get(feature, "details", <<>>)) \o ".")
  IN  MapSeq(FeatureChunk, Get(section, "features", <<>>))

CertificateChunks(features) ==
  LET cert_sys == Get(features, "certificateSystem", <<>>)
      blockchain == Get(cert_sys, "blockchain", <<>>)
      EndpointChunk(endpoint) ==
        Chunk("Certificate API",
          "Certificate API Endpoint: " \o Get(endpoint, "method", "GET")
          \o " " \o Get(endpoint, "path", "")
          \o " - " \o Get(endpoint, "description", "") \o ".")
  IN  << Chunk("Certificate System",
           "Certificate System: " \o Get(cert_sys, "description", "")
           \o ". Network: " \o Get(blockchain, "network", "")
           \o ". Features: "
           \o Join(", ", Get(blockchain, "features", <<>>)) \o ".") >>
      \o MapSeq(EndpointChunk, Get(cert_sys, "endpoints", <<>>))

\* "<label>: <description>" (the whiteboard and audio/video header chunks)
DescriptionChunk(section, category, label) ==
  << Chunk(category, label \o ": " \o Get(section, "description", "")) >>

\* communityPortal, donationSystem, doubtResolution, digitalLibrary
SummaryChunk(section, category, label) ==
  << Chunk(category,
       label \o ": " \o Get(section, "description", "")
       \o ". Features: " \o Join(", ", Get(section, "features", <<>>)) \o ".") >>

\* howToUse.forStudents / forTeachers / forAdmins: guides is the dict
\* guide name -> steps, in file order
GuideChunks(guides, category, audience) ==
  LET GuideChunk(kv) ==
        LET steps == kv[2]
            steps_text ==
              Join(" ", [i \in 1..Len(steps) |-> ToString(i) \o ". " \o steps[i]])
        IN  Chunk(category,
              "Guide for " \o audience \o " - " \o kv[1] \o ": " \o steps_text)
  IN  MapSeq(GuideChunk, guides)

FaqChunks(kb) ==
  LET FaqChunk(faq) ==
        Chunk("FAQ", "Q: " \o Get(faq, "question", "")
                     \o " A: " \o Get(faq, "answer", ""))
  IN  MapSeq(FaqChunk, Get(kb, "faq", <<>>))

TechnicalRequirementsChunks(kb) ==
  LET tech_req == Get(kb, "technicalRequirements", <<>>)
  IN  << Chunk("Technical Requirements",
           "Browser Requirements: " \o Get(tech_req, "browser", "")
           \o ". Student Requirements: "
           \o Join(", ", Get(tech_req, "student", <<>>))
           \o ". Teacher Requirements: "
           \o Join(", ", Get(tech_req, "teacher", <<>>)) \o ".") >>

DataModelChunks(kb) ==
  LET ModelChunk(kv) ==
        Chunk("Data Models",
          "Data Model: " \o kv[1] \o ". Fields: "
          \o Join(", ", Get(kv[2], "fields", <<>>)) \o ".")
  IN  MapSeq(ModelChunk, Get(kb, "dataModels", <<>>))

create_chunks(kb) ==
  LET features == Get(kb, "features", <<>>)
      whiteboard == Get(features, "collaborativeWhiteboard", <<>>)
      av_classes == Get(features, "audioVideoClasses", <<>>)
      how_to == Get(kb, "howToUse", <<>>)
  IN  Concat(<<
        ProjectChunks(kb),
        ArchitectureChunks(kb),
        UserManagementChunks(features),
        FeatureChunks(Get(features, "courseManagement", <<>>),
                      "Course Management", "Course Feature"),
        CertificateChunks(features),
        DescriptionChunk(whiteboard, "Whiteboard", "Collaborative Whiteboard"),
        FeatureChunks(whiteboard, "Whiteboard", "Whiteboard Feature"),
        DescriptionChunk(av_classes, "Audio/Video", "Audio/Video Classes"),
        FeatureChunks(av_classes, "Audio/Video", "Audio/Video Feature"),
        SummaryChunk(Get(features, "communityPortal", <<>>),
                     "Community", "Community Portal"),
        SummaryChunk(Get(features, "donationSystem", <<>>),
                     "Donations", "Donation System"),
        FeatureChunks(Get(features, "seminarManagement", <<>>),
                      "Seminars", "Seminar Feature"),
        SummaryChunk(Get(features, "doubtResolution", <<>>),
                     "Doubts", "Doubt Resolution"),
        SummaryChunk(Get(features, "digitalLibrary", <<>>),
                     "Library", "Digital Library"),
        GuideChunks(Get(how_to, "forStudents", <<>>),
                    "How To - Students", "Students"),
        GuideChunks(Get(how_to, "forTeachers", <<>>),
                    "How To - Teachers", "Teachers"),
        GuideChunks(Get(how_to, "forAdmins", <<>>),
                    "How To - Admins", "Admins"),
        FaqChunks(kb),
        TechnicalRequirementsChunks(kb),
        DataModelChunks(kb) >>)

get_all_chunks(kb) == create_chunks(kb)

(***************************************************************************)
(* Text handling used by the retriever: characters of a string, str.lower, *)
(* the substring test (x in s).                                            *)
(***************************************************************************)
CharAt(s, i) == SubSeq(s, i, i)

Chars(s) == {CharAt(s, i) : i \in 1..Len(s)}

UpperCase == "ABCDEFGHIJKLMNOPQRSTUVWXYZ"

LowerCase == "abcdefghijklmnopqrstuvwxyz"

LowerOf ==
  [c \in Chars(UpperCase) |->
     CharAt(LowerCase, CHOOSE i \in 1..Len(UpperCase) : CharAt(UpperCase, i) = c)]

\* str.lower(), by halves so that long strings need no deep recursion
RECURSIVE lower(_)
lower(s) ==
  IF Len(s) = 0 THEN ""
  ELSE IF Len(s) = 1 THEN (IF s \in DOMAIN LowerOf THEN LowerOf[s] ELSE s)
  ELSE LET h == Len(s) \div 2
       IN  lower(SubSeq(s, 1, h)) \o lower(SubSeq(s, h + 1, Len(s)))

\* str.strip(): without the whitespace at both ends
strip(s) ==
  LET solid == {i \in 1..Len(s) : CharAt(s, i) \notin {" ", "\t", "\n", "\r"}}
  IN  IF solid = {} THEN ""
      ELSE SubSeq(s, CHOOSE i \in solid : \A j \in solid : i <= j,
                     CHOOSE i \in solid : \A j \in solid : i >= j)

\* x in s
Contains(s, x) ==
  \E i \in 1..(Len(s) - Len(x) + 1) : SubSeq(s, i, i + Len(x) - 1) = x

(***************************************************************************)
(* TfidfVectorizer(stop_words='english', ngram_range=(1, 2),               *)
(* max_features=5000) as retriever.py configures it: lowercase, tokens of  *)
(* two or more word characters, English stop words removed, unigrams and   *)
(* bigrams, smoothed idf, rows scaled to unit length.  Weights are         *)
(* fixed-point numbers: idf in hundredths, unit vectors in ten-thousandths.*)
(***************************************************************************)
WordChars == Chars(UpperCase) \cup Chars(LowerCase) \cup Chars("0123456789_")

\* the tokens of a short string, left to right (token_pattern \b\w\w+\b)
RECURSIVE ScanTokens(_, _, _, _)
ScanTokens(s, i, cur, acc) ==
  IF i > Len(s) THEN (IF Len(cur) >= 2 THEN Append(acc, cur) ELSE acc)
  ELSE IF CharAt(s, i) \in WordChars
       THEN ScanTokens(s, i + 1, cur \o CharAt(s, i), acc)
       ELSE ScanTokens(s, i + 1, "", IF Len(cur) >= 2 THEN Append(acc, cur) ELSE acc)

\* the same for any string: cut at a separator near the middle
RECURSIVE FindTokens(_)
FindTokens(s) ==
  LET n == Len(s)
      h == n \div 2
      IsSep(i) == CharAt(s, i) \notin WordChars
  IN  IF n <= 48 THEN ScanTokens(s, 1, "", <<>>)
      ELSE IF \E i \in h..n : IsSep(i)
           THEN LET cut == CHOOSE i \in h..n : IsSep(i)
                IN  FindTokens(SubSeq(s, 1, cut - 1))
                    \o FindTokens(SubSeq(s, cut + 1, n))
           ELSE IF \E i \in 1..h : IsSep(i)
                THEN LET cut == CHOOSE i \in 1..h : IsSep(i)
                     IN  FindTokens(SubSeq(s, 1, cut - 1))
                         \o FindTokens(SubSeq(s, cut + 1, n))
                ELSE << s >>

\* the words of sklearn's ENGLISH_STOP_WORDS that occur in the modelled
\* documents and queries
StopWords ==
  { "about", "all", "also", "an", "and", "any", "are", "as", "at", "be", "by",
    "can", "do", "for", "from", "has", "have", "how", "if", "in", "is", "it",
    "me", "my", "no", "not", "of", "on", "or", "so", "system", "that", "the",
    "this", "to", "up", "was", "we", "what", "when", "where", "which", "who",
    "why", "will", "with", "you", "your" }

\* the analyzer: the unigrams, then the bigrams, of the text
Analyze(text) ==
  LET IsContent(w) == w \notin StopWords
      words == SelectSeq(FindTokens(lower(text)), IsContent)
      bigrams == [i \in 1..(Len(words) - 1) |-> words[i] \o " " \o words[i + 1]]
  IN  words \o bigrams

\* term counts of a list of terms
Counts(terms) ==
  [t \in {terms[i] : i \in 1..Len(terms)} |->
     Cardinality({i \in 1..Len(terms) : terms[i] = t})]

\* round(100 * ln(n)) for n = 1..24
LnCenti ==
  << 0, 69, 110, 139, 161, 179, 195, 208, 220, 230, 240, 248,
     256, 264, 271, 277, 283, 289, 294, 300, 304, 309, 314, 318 >>

\* idf = ln((1 + n_docs) / (1 + df)) + 1, in hundredths
Idf(n_docs, df) == LnCenti[1 + n_docs] - LnCenti[1 + df] + 100

RECURSIVE IsqrtIter(_, _)
IsqrtIter(n, x) ==
  LET y == (x + n \div x) \div 2 IN IF y >= x THEN x ELSE IsqrtIter(n, y)

\* floor of the square root
Isqrt(n) == IF n = 0 THEN 0 ELSE IsqrtIter(n, n)

RECURSIVE SumOver(_, _)
SumOver(f, S) ==
  IF S = {} THEN 0 ELSE LET x == CHOOSE y \in S : TRUE IN f[x] + SumOver(f, S \ {x})

\* norm='l2': the row divided by its length (a zero row stays zero)
Normalize(row) ==
  LET norm == Isqrt(SumOver([t \in DOMAIN row |-> row[t] * row[t]], DOMAIN row))
  IN  [t \in DOMAIN row |-> (row[t] * 10000) \div norm]

max_features == 5000

\* the vocabulary: every term of the corpus, or the max_features most
\* frequent ones when there are more
Vocabulary(analyzed) ==
  LET n == Len(analyzed)
      all == UNION {{analyzed[d][i] : i \in 1..Len(analyzed[d])} : d \in 1..n}
      freq == [t \in all |->
                 SumOver([d \in 1..n |-> Get(Counts(analyzed[d]), t, 0)], 1..n)]
  IN  IF Cardinality(all) <= max_features THEN all
      ELSE CHOOSE V \in SUBSET all :
             /\ Cardinality(V) = max_features
             /\ \A t \in V, u \in all \ V : freq[t] >= freq[u]

\* a text's tf-idf row over a fitted vocabulary; terms outside it are dropped
TfidfRow(terms, vocabulary, idf) ==
  LET tf == Counts(terms)
      kept == DOMAIN tf \cap vocabulary
  IN  Normalize([t \in kept |-> tf[t] * idf[t]])

\* vectorizer.fit_transform(texts): ok is FALSE where sklearn raises
\* ValueError (no text, or no term left after stop-word removal)
fit_transform(texts) ==
  LET analyzed == [d \in 1..Len(texts) |-> Analyze(texts[d])]
      vocabulary == Vocabulary(analyzed)
      n == Len(texts)
      idf == [t \in vocabulary |->
                Idf(n, Cardinality({d \in 1..n :
                                      t \in {analyzed[d][i] : i \in 1..Len(analyzed[d])}}))]
  IN  IF vocabulary = {}
      THEN [ok |-> FALSE, vocabulary |-> {}, idf |-> <<>>, matrix |-> <<>>]
      ELSE [ok |-> TRUE, vocabulary |-> vocabulary, idf |-> idf,
            matrix |-> [d \in 1..n |-> TfidfRow(analyzed[d], vocabulary, idf)]]

\* vectorizer.transform([text])
transform(vectorizer, text) ==
  TfidfRow(Analyze(text), vectorizer.vocabulary, vectorizer.idf)

\* cosine_similarity(query_vec, tfidf_matrix).flatten(): one score per chunk,
\* 10^8 standing for 1.0
cosine_similarity(query_vec, matrix) ==
  [d \in 1..Len(matrix) |->
     LET shared == DOMAIN query_vec \cap DOMAIN matrix[d]
     IN  SumOver([t \in shared |-> query_vec[t] * matrix[d][t]], shared)]

(***************************************************************************)
(* config.py                                                               *)
(***************************************************************************)
TOP_K_RESULTS == 5

MAX_CONTEXT_LENGTH == 4000

(***************************************************************************)
(* retriever.py.  The Devanagari keywords of HINDI_TO_ENGLISH are written  *)
(* in Latin letters after a '#': no keyword is a substring of another, in  *)
(* the source as here, and none contains a keyword of QUERY_EXPANSIONS.    *)
(* Both tables keep the source's order, which is the order dict.items()    *)
(* yields.                                                                 *)
(***************************************************************************)
QUERY_EXPANSIONS ==
  << <<"teach", "teach teacher teaching instructor create course upload">>,
     <<"learn", "learn student learning enroll course study">>,
     <<"register", "register signup sign up registration account create">>,
     <<"certificate", "certificate blockchain verification verify certified">>,
     <<"whiteboard", "whiteboard collaborative drawing tools canvas">>,
     <<"class", "class live session audio video meeting">>,
     <<"doubt", "doubt question ask help support resolution">>,
     <<"admin", "admin administrator manage platform users">> >>

HINDI_TO_ENGLISH ==
  << <<"#navashiksha", "NavShiksha">>,
     <<"navshiksha", "NavShiksha">>,
     <<"#kya", "what is">>,
     <<"#kaise", "how to">>,
     <<"#kaisa", "how">>,
     <<"#shikshak", "teacher">>,
     <<"#adhyapak", "teacher">>,
     <<"#padhana", "teach teaching">>,
     <<"#padhai", "study learn">>,
     <<"#seekhna", "learn learning">>,
     <<"#chhatra", "student">>,
     <<"#vidyarthi", "student">>,
     <<"#panjikaran", "register registration">>,
     <<"#rajistar", "register">>,
     <<"#pramanpatra", "certificate">>,
     <<"#sartifiket", "certificate">>,
     <<"#vhaitbord", "whiteboard">>,
     <<"#kaksha", "class">>,
     <<"#klas", "class">>,
     <<"#sandeh", "doubt">>,
     <<"#saval", "question">>,
     <<"#kors", "course">>,
     <<"#pathyakram", "course">>,
     <<"#ke", "what">>,
     <<"#kiyan", "how">>,
     <<"#mastar", "teacher">> >>

\* a translation loop that stops at the first keyword found
RECURSIVE TranslateFirstOnly(_, _, _)
TranslateFirstOnly(query, translated, i) ==
  IF i > Len(HINDI_TO_ENGLISH) THEN translated
  ELSE IF Contains(query, HINDI_TO_ENGLISH[i][1])
       THEN translated \o " " \o HINDI_TO_ENGLISH[i][2]
       ELSE TranslateFirstOnly(query, translated, i + 1)

\* Retriever._translate_query: the loop over HINDI_TO_ENGLISH from entry i
RECURSIVE TranslateFrom(_, _, _)
TranslateFrom(query, translated, i) ==
  IF i > Len(HINDI_TO_ENGLISH) THEN translated
  ELSE TranslateFrom(query,
         IF Contains(query, HINDI_TO_ENGLISH[i][1])
         THEN translated \o " " \o HINDI_TO_ENGLISH[i][2]
         ELSE translated,
         i + 1)

_translate_query(query) == TranslateFrom(query, query, 1)

\* an expansion loop that adds to what it has built and never breaks
\* (expanded = f"{expanded} {expansion}")
RECURSIVE ExpandFrom(_, _, _)
ExpandFrom(query_lower, expanded, i) ==
  IF i > Len(QUERY_EXPANSIONS) THEN expanded
  ELSE ExpandFrom(query_lower,
         IF Contains(query_lower, QUERY_EXPANSIONS[i][1])
         THEN expanded \o " " \o QUERY_EXPANSIONS[i][2]
         ELSE expanded,
         i + 1)

ExpandAllMatches(raw_query) ==
  ExpandFrom(lower(_translate_query(raw_query)), _translate_query(raw_query), 1)

\* the loop of _expand_query without its break: the last entry found wins
ExpandLastMatch(raw_query) ==
  LET query == _translate_query(raw_query)
      hits == {i \in 1..Len(QUERY_EXPANSIONS) :
                 Contains(lower(query), QUERY_EXPANSIONS[i][1])}
  IN  IF hits = {} THEN query
      ELSE LET last == CHOOSE i \in hits : \A j \in hits : i >= j
           IN  query \o " " \o QUERY_EXPANSIONS[last][2]

\* Retriever._expand_query: the first entry whose keyword is in the
\* lowercased translated query is appended, and the loop breaks
_expand_query(raw_query) ==
  LET query == _translate_query(raw_query)
      query_lower == lower(query)
      hits == {i \in 1..Len(QUERY_EXPANSIONS) :
                 Contains(query_lower, QUERY_EXPANSIONS[i][1])}
  IN  IF hits = {} THEN query
      ELSE LET first == CHOOSE i \in hits : \A j \in hits : i <= j
           IN  query \o " " \o QUERY_EXPANSIONS[first][2]

\* Retriever.__init__ / _initialize on the chunks of the knowledge base
Retriever(chunks) ==
  LET fitted == fit_transform([i \in 1..Len(chunks) |-> chunks[i].text])
  IN  [ok |-> fitted.ok,
       chunks |-> chunks,
       vectorizer |-> [vocabulary |-> fitted.vocabulary, idf |-> fitted.idf],
       tfidf_matrix |-> fitted.matrix]

\* lines 121-128 of search: the similarity of every chunk to the query
Similarities(self, query) ==
  cosine_similarity(transform(self.vectorizer, _expand_query(query)),
                    self.tfidf_matrix)

RECURSIVE Perms(_)
Perms(S) ==
  IF S = {} THEN {<<>>}
  ELSE UNION {{<<x>> \o p : p \in Perms(S \ {x})} : x \in S}

RECURSIVE Ascending(_)
Ascending(S) ==
  IF S = {} THEN <<>>
  ELSE LET m == CHOOSE x \in S : \A y \in S : x <= y
       IN  <<m>> \o Ascending(S \ {m})

RECURSIVE ArgsortFrom(_, _)
ArgsortFrom(a, values) ==
  IF values = {} THEN {<<>>}
  ELSE LET v == CHOOSE x \in values : \A y \in values : x <= y
           group == {i \in DOMAIN a : a[i] = v}
           orders == IF v = 0 THEN {Ascending(group)} ELSE Perms(group)
       IN  {h \o t : h \in orders, t \in ArgsortFrom(a, values \ {v})}

\* similarities.argsort(): the index orders numpy may return.  The default
\* kind is quicksort, which is not stable, so equal scores may come in any
\* order.  The chunks of score 0 are listed in index order only: search
\* drops them (line 136), so their order cannot be seen in any result.
argsort(a) == ArgsortFrom(a, {a[i] : i \in DOMAIN a})

\* top_k if top_k is not None else TOP_K_RESULTS (lines 118-119)
EffectiveTopK(top_k) == IF top_k = <<>> THEN TOP_K_RESULTS ELSE top_k[1]

\* similarities.argsort()[-top_k:][::-1] (line 131)
TopIndices(order, top_k) == Reverse(SliceFrom(order, 0 - EffectiveTopK(top_k)))

\* the test with >= in place of >
IsMatchOrZero(score) == score >= 0

\* if similarities[idx] > 0 (line 136)
IsMatch(score) == score > 0

\* lines 131-139 of search for one outcome of argsort
SearchResults(self, similarities, order, top_k) ==
  LET top_indices == TopIndices(order, top_k)
      Keep(idx) == IsMatch(similarities[idx])
      kept == SelectSeq(top_indices, Keep)
  IN  [i \in 1..Len(kept) |->
         [chunk |-> self.chunks[kept[i]], idx |-> kept[i],
          score |-> similarities[kept[i]]]]

\* Retriever.search: the result lists it may return.  A result carries the
\* chunk, its score and (to tell results of equal score apart) the chunk's index.
search(self, query, top_k) ==
  LET similarities == Similarities(self, query)
  IN  {SearchResults(self, similarities, order, top_k) :
         order \in argsort(similarities)}

NO_RESULTS == "No relevant information found in the knowledge base."

\* get_context without the test "if not results": the join of no parts
FormatContextNoSentinel(results) ==
  Join("\n\n",
    [i \in 1..Len(results) |->
       "[" \o results[i].chunk.category \o "]: " \o results[i].chunk.text])

\* lines 154-161 of get_context on the results of search
FormatContext(results) ==
  IF Len(results) = 0 THEN NO_RESULTS
  ELSE Join("\n\n",
         [i \in 1..Len(results) |->
            "[" \o results[i].chunk.category \o "]: " \o results[i].chunk.text])

\* a truncation that cuts and adds no marker
TruncateContextNoMarker(context) ==
  IF Len(context) > MAX_CONTEXT_LENGTH
  THEN SliceTo(context, MAX_CONTEXT_LENGTH)
  ELSE context

\* Chatbot._build_prompt, lines 66-68: the context after truncation
TruncateContext(context) ==
  IF Len(context) > MAX_CONTEXT_LENGTH
  THEN SliceTo(context, MAX_CONTEXT_LENGTH) \o "..."
  ELSE context

\* RAG_PROMPT_TEMPLATE.format(context=context, question=question)
RAG_PROMPT(context, question) ==
  "Based on the following context from NavShiksha knowledge base, answer the user's question.\n\nCONTEXT:\n"
  \o context \o "\n\nUSER QUESTION: " \o question \o "\n\nANSWER:"

(***************************************************************************)
(* chatbot.py: the parts of Chatbot.chat that read or write the history.   *)
(***************************************************************************)
\* the window taken from the wrong end: self.history[:4]
HistoryWindowOldest(history) == SliceTo(history, 4)

\* the turns read by "for turn in self.history[-4:]" (line 88)
HistoryWindow(history) == SliceFrom(history, 0 - 4)

\* the message list without the current prompt (line 93 left out)
BuildMessagesNoPrompt(history, prompt) ==
  LET TurnMessages(turn) ==
        << [role |-> "user", parts |-> << turn.user >>],
           [role |-> "model", parts |-> << turn.assistant >>] >>
  IN  Concat(MapSeq(TurnMessages, HistoryWindow(history)))

\* lines 87-93: two messages per turn of the window, then the prompt
BuildMessages(history, prompt) ==
  LET TurnMessages(turn) ==
        << [role |-> "user", parts |-> << turn.user >>],
           [role |-> "model", parts |-> << turn.assistant >>] >>
  IN  Concat(MapSeq(TurnMessages, HistoryWindow(history)))
      \o << [role |-> "user", parts |-> << prompt >>] >>

\* lines 95-100: what chat asks of the generator.  With a non-empty message
\* list a session is started on messages[:-1] and the prompt is sent to it;
\* otherwise the prompt goes to generate_content.
GeneratorRequest(messages, prompt) ==
  IF Len(messages) > 0
  THEN [api |-> "start_chat", history |-> SliceTo(messages, Len(messages) - 1),
        sent |-> << prompt >>]
  ELSE [api |-> "generate_content", history |-> <<>>, sent |-> << prompt >>]

\* an append that keeps the history to the size of the window
AppendTurnEvicting(history, user_message, assistant_response) ==
  SliceFrom(
    Append(history, [user |-> user_message, assistant |-> assistant_response]),
    0 - 4)

\* lines 105-108: self.history.append({...})
AppendTurn(history, user_message, assistant_response) ==
  Append(history, [user |-> user_message, assistant |-> assistant_response])

\* line 115: the string chat returns when anything in the try block raised
Apology(e) ==
  "I'm sorry, I encountered an error. Please try again. (" \o e \o ")"

(***************************************************************************)
(* Bounds and inputs of the model.                                         *)
(***************************************************************************)
\* concurrent request handlers (threads of the web server)
NumThreads == 2

\* the service stops appending once a history holds this many turns
MaxTurns == 2

\* the same for the single caller, who fills more than one history window
MaxHistory == 5

\* the largest explicit top_k given to search and get_context
MaxTopK == 3

\* the lines typed into the command-line loop in one run
MaxInputs == 3

Threads == 1..NumThreads

\* ids of the list objects self.history may be bound to: one per Chatbot
\* and one for the list that clear_history creates before the old one is
\* released
ListIds == 1..(NumThreads + 1)

\* knowledge_base.json as "{}": every section missing
KBEmpty == <<>>

\* a small knowledge base; the FAQ lists one question twice
KBSmall ==
  [project |-> [description |-> "an education platform for rural students",
                tagline |-> "Learn anywhere"],
   features |->
     [collaborativeWhiteboard |->
        [description |-> "a shared canvas",
         features |-> << [name |-> "Pen", details |-> <<"color", "width">>] >>]],
   faq |-> << [question |-> "How do I register?",
               answer |-> "Use the signup page."],
              [question |-> "How do I register?",
               answer |-> "Use the signup page."] >>]

\* a knowledge base whose project description is 4100 characters long
KBLong ==
  [project |-> [description |-> Rep("and so on ", 410)]]

SearchKBs == {KBEmpty, KBSmall, KBLong}

\* a knowledge base whose whiteboard section has a description and one
\* feature without details
KBTools ==
  [features |->
     [collaborativeWhiteboard |->
        [description |-> "collaborative drawing tools and a canvas",
         features |-> << [name |-> "Pen"] >>]]]

OwnTextKBs == {KBEmpty, KBSmall, KBTools}

\* the dict with the given <<key, value>> pairs
Dict(pairs) ==
  [k \in {pairs[i][1] : i \in DOMAIN pairs} |->
     pairs[CHOOSE i \in DOMAIN pairs : pairs[i][1] = k][2]]

\* the dict of those pairs whose path (prefix + key) is not among the
\* missing ones
Present(missing, prefix, pairs) ==
  LET Kept(pair) == (prefix \o pair[1]) \notin missing
  IN  Dict(SelectSeq(pairs, Kept))

\* a list of named features, each with its details
NamedFeatures(missing, prefix, name, details) ==
  << Present(missing, prefix,
       << <<"name", name>>, <<"details", details>> >>) >>

\* a knowledge base with every section and every field the flattener reads,
\* less the sections and fields whose paths are in missing
KBPartial(missing) ==
  Present(missing, "", <<
    <<"project",
      Present(missing, "project.", <<
        <<"description", "a learning platform">>,
        <<"tagline", "Learn anywhere">>,
        <<"version", "1.0">>,
        <<"type", "web application">> >>)>>,
    <<"architecture",
      Present(missing, "architecture.", <<
        <<"components", <<
          Present(missing, "architecture.components.", <<
            <<"name", "frontend">>,
            <<"type", "client">>,
            <<"technology", << <<"framework", "React">> >> >> >>) >> >> >>)>>,
    <<"features",
      Present(missing, "features.", <<
        <<"userManagement",
          Present(missing, "features.userManagement.", <<
            <<"roles", <<
              Present(missing, "features.userManagement.roles.", <<
                <<"role", "student">>,
                <<"capabilities", <<"enroll", "attend">> >> >>) >> >> >>)>>,
        <<"courseManagement",
          Present(missing, "features.courseManagement.", <<
            <<"features",
              NamedFeatures(missing, "features.courseManagement.features.",
                            "Upload", <<"video", "notes">>)>> >>)>>,
        <<"certificateSystem",
          Present(missing, "features.certificateSystem.", <<
            <<"description", "verifiable certificates">>,
            <<"blockchain",
              Present(missing, "features.certificateSystem.blockchain.", <<
                <<"network", "Polygon">>,
                <<"features", <<"tamper proof">> >> >>)>>,
            <<"endpoints", <<
              Present(missing, "features.certificateSystem.endpoints.", <<
                <<"method", "POST">>,
                <<"path", "/api/certificates">>,
                <<"description", "issue a certificate">> >>) >> >> >>)>>,
        <<"collaborativeWhiteboard",
          Present(missing, "features.collaborativeWhiteboard.", <<
            <<"description", "a shared canvas">>,
            <<"features",
              NamedFeatures(missing, "features.collaborativeWhiteboard.features.",
                            "Pen", <<"color", "width">>)>> >>)>>,
        <<"audioVideoClasses",
          Present(missing, "features.audioVideoClasses.", <<
            <<"description", "live lessons">>,
            <<"features",
              NamedFeatures(missing, "features.audioVideoClasses.features.",
                            "Screen share", <<"window", "tab">>)>> >>)>>,
        <<"communityPortal",
          Present(missing, "features.communityPortal.", <<
            <<"description", "a forum">>,
            <<"features", <<"posts", "replies">> >> >>)>>,
        <<"donationSystem",
          Present(missing, "features.donationSystem.", <<
            <<"description", "support for students">>,
            <<"features", <<"receipts">> >> >>)>>,
        <<"seminarManagement",
          Present(missing, "features.seminarManagement.", <<
            <<"features",
              NamedFeatures(missing, "features.seminarManagement.features.",
                            "Schedule", <<"date", "speaker">>)>> >>)>>,
        <<"doubtResolution",
          Present(missing, "features.doubtResolution.", <<
            <<"description", "questions answered by mentors">>,
            <<"features", <<"threads">> >> >>)>>,
        <<"digitalLibrary",
          Present(missing, "features.digitalLibrary.", <<
            <<"description", "books and papers">>,
            <<"features", <<"search", "download">> >> >>)>> >>)>>,
    <<"howToUse",
      Present(missing, "howToUse.", <<
        <<"forStudents", << <<"Join a lesson", <<"Log in", "Open the lesson">> >> >> >>,
        <<"forTeachers", << <<"Create a course", <<"Log in", "Press New">> >> >> >>,
        <<"forAdmins", << <<"Approve a teacher", <<"Open the requests">> >> >> >> >>)>>,
    <<"faq", <<
      Present(missing, "faq.", <<
        <<"question", "Is it free?">>,
        <<"answer", "Yes.">> >>) >> >>,
    <<"technicalRequirements",
      Present(missing, "technicalRequirements.", <<
        <<"browser", "any modern browser">>,
        <<"student", <<"a microphone">> >>,
        <<"teacher", <<"a camera", "a microphone">> >> >>)>>,
    <<"dataModels", <<
      <<"User", Present(missing, "dataModels.User.", <<
                  <<"fields", <<"name", "email">> >> >>)>> >> >> >>)

\* the sections of the document: the top-level ones and the feature groups
TopSections ==
  {"project", "architecture", "features", "howToUse", "faq",
   "technicalRequirements", "dataModels"}

FeatureGroups ==
  {"userManagement", "courseManagement", "certificateSystem",
   "collaborativeWhiteboard", "audioVideoClasses", "communityPortal",
   "donationSystem", "seminarManagement", "doubtResolution", "digitalLibrary"}

\* the fields inside the sections, by the section they belong to
SectionFields ==
  [s \in {"project", "architecture", "howToUse", "faq",
          "technicalRequirements", "dataModels"}
        \cup {"features." \o g : g \in FeatureGroups} |->
     CASE s = "project" ->
            {"project.description", "project.tagline", "project.version",
             "project.type"}
       [] s = "architecture" ->
            {"architecture.components", "architecture.components.name",
             "architecture.components.type",
             "architecture.components.technology"}
       [] s = "howToUse" ->
            {"howToUse.forStudents", "howToUse.forTeachers",
             "howToUse.forAdmins"}
       [] s = "faq" -> {"faq.question", "faq.answer"}
       [] s = "technicalRequirements" ->
            {"technicalRequirements.browser", "technicalRequirements.student",
             "technicalRequirements.teacher"}
       [] s = "dataModels" -> {"dataModels.User.fields"}
       [] s = "features.userManagement" ->
            {s \o ".roles", s \o ".roles.role", s \o ".roles.capabilities"}
       [] s = "features.certificateSystem" ->
            {s \o ".description", s \o ".blockchain",
             s \o ".blockchain.network", s \o ".blockchain.features",
             s \o ".endpoints", s \o ".endpoints.method",
             s \o ".endpoints.path", s \o ".endpoints.description"}
       [] s \in {"features.courseManagement", "features.seminarManagement"} ->
            {s \o ".features", s \o ".features.name",
             s \o ".features.details"}
       [] s \in {"features.collaborativeWhiteboard",
                 "features.audioVideoClasses"} ->
            {s \o ".description", s \o ".features", s \o ".features.name",
             s \o ".features.details"}
       [] OTHER -> {s \o ".description", s \o ".features"}]

FieldPaths == UNION {SectionFields[s] : s \in DOMAIN SectionFields}

\* what a partial document lacks: any set of top-level sections, alone or
\* with a field of a FAQ entry; one feature group or all of them; one field;
\* all the fields of one section (the section is there and empty); all the
\* fields
MissingSets ==
  (SUBSET TopSections)
  \cup {S \cup {"faq.answer"} : S \in SUBSET (TopSections \ {"faq"})}
  \cup {{"features." \o g} : g \in FeatureGroups}
  \cup {{"features." \o g : g \in FeatureGroups}}
  \cup {{f} : f \in FieldPaths}
  \cup {SectionFields[s] : s \in DOMAIN SectionFields}
  \cup {FieldPaths}

PartialKBs == {KBPartial(missing) : missing \in MissingSets}

SearchQueries ==
  {"", "   ", "zzz", "what is it", "features", "whiteboard tools", "GyaanSetu",
   "How do I register?", "GyaanSetu whiteboard"}

TopKs == {<<>>} \cup {<<k>> : k \in 0..MaxTopK}

\* words of the queries given to _expand_query: keywords of both tables in
\* either case, and a word of neither
QueryWords ==
  {"teach", "Learn", "CLASS", "doubt", "#kya", "#shikshak", "#adhyapak",
   "#panjikaran", "navshiksha", "#klas", "zzz"}

\* the queries of at most two words
ExpandQueries ==
  {""} \cup QueryWords \cup {v \o " " \o w : v, w \in QueryWords}

ChatMessages == {"whiteboard tools", "zzz"}

Replies == {"Use the pen tool.", "I don't have that information."}

\* the one reply the generator gives in the service
ServiceReply == "Use the pen tool."

GeneratorErrors == {"504 Deadline Exceeded"}

(***************************************************************************)
(* State.                                                                  *)
(***************************************************************************)
VARIABLES
  kb_file,              \* knowledge_base.json: whether it can be read, and its content
  GEMINI_API_KEY,       \* config.GEMINI_API_KEY ("" when the variable is unset)
  _retriever_instance,  \* retriever.py's singleton: <<>> (None) or <<id>>
  _chatbot_instance,    \* chatbot.py's singleton: <<>> (None) or <<id>>
  retrievers,           \* the Retriever objects constructed so far, by id
  chatbots,             \* the Chatbot objects constructed so far, by id:
                        \*   retriever (an id) and history (the id of a list)
  lists,                \* the content of every list object a history may be
  threads,              \* each request handler's position and locals
  call                  \* the last direct call of search, get_context or
                        \* _build_prompt, with its locals and return value

vars == << kb_file, GEMINI_API_KEY, _retriever_instance, _chatbot_instance,
           retrievers, chatbots, lists, threads, call >>

Idle == [pc |-> "idle", op |-> "", msg |-> "", retriever |-> <<>>,
         chatbot |-> <<>>, prompt |-> "", messages |-> <<>>, result |-> ""]

NoCall == [op |-> "", query |-> "", top_k |-> <<>>, results |-> <<>>,
           retrieved |-> "", context |-> "", prompt |-> "",
           translated |-> "", expanded |-> "", chunks |-> <<>>, error |-> "",
           ref |-> <<>>, status |-> 0, body |-> "", seq |-> 0]

\* f with f[k] set to v, k added to its domain if needed
With(f, k, v) == [x \in DOMAIN f \cup {k} |-> IF x = k THEN v ELSE f[x]]

\* the list self.history of Chatbot c is bound to
HistoryOf(c) == lists[chatbots[c].history]

\* the list a caller holds from get_history: <<>> or <<id>>
HeldList == call.ref

\* a list id that neither a Chatbot's history nor a caller's reference is
\* bound to
FreeList ==
  LET used == {chatbots[c].history : c \in DOMAIN chatbots}
                \cup {HeldList[i] : i \in DOMAIN HeldList}
  IN  CHOOSE i \in ListIds \ used : \A j \in ListIds \ used : i <= j

\* Reference counting: of the objects cbs, ls and rs, those still referred
\* to by the singletons c_inst and r_inst or by a local of the threads ths;
\* a Chatbot refers to its retriever and to its history list, and a caller
\* may hold the list get_history gave it
Collect(cbs, ls, rs, ths, c_inst, r_inst) ==
  LET live_c == {c \in DOMAIN cbs :
                   c_inst = <<c>> \/ \E t \in Threads : ths[t].chatbot = <<c>>}
      live_r == {r \in DOMAIN rs :
                   \/ r_inst = <<r>>
                   \/ \E c \in live_c : cbs[c].retriever = r
                   \/ \E t \in Threads : ths[t].retriever = <<r>>}
      live_l == {cbs[c].history : c \in live_c}
                  \cup {HeldList[i] : i \in DOMAIN HeldList}
  IN  [chatbots |-> [c \in live_c |-> cbs[c]],
       lists |-> [i \in ListIds |-> IF i \in live_l THEN ls[i] ELSE <<>>],
       retrievers |-> [r \in live_r |-> rs[r]]]

(***************************************************************************)
(* Retriever.get_context and Chatbot._build_prompt with their locals: the  *)
(* records they may end with.                                              *)
(***************************************************************************)
get_context(self, query, top_k) ==
  {[results |-> results, retrieved |-> FormatContext(results)] :
     results \in search(self, query, top_k)}

_build_prompt(retriever, question) ==
  {[results |-> g.results, retrieved |-> g.retrieved,
    context |-> TruncateContext(g.retrieved),
    prompt |-> RAG_PROMPT(TruncateContext(g.retrieved), question)] :
     g \in get_context(retriever, question, <<>>)}

(***************************************************************************)
(* Direct calls on a constructed Retriever and Chatbot (what the __main__  *)
(* blocks of retriever.py and chatbot.py do).                              *)
(***************************************************************************)
InitSearch ==
  /\ kb_file \in {[exists |-> TRUE, data |-> kb] : kb \in SearchKBs}
  /\ GEMINI_API_KEY = "key"
  /\ _retriever_instance = <<1>>
  /\ _chatbot_instance = <<1>>
  /\ retrievers = With(<<>>, 1, Retriever(get_all_chunks(kb_file.data)))
  /\ chatbots = With(<<>>, 1, [retriever |-> 1, history |-> 1])
  /\ lists = [i \in ListIds |-> <<>>]
  /\ threads = [t \in Threads |-> Idle]
  /\ call = NoCall

CallSearch(query, top_k) ==
  /\ \E results \in search(retrievers[_retriever_instance[1]], query, top_k) :
       call' = [NoCall EXCEPT !.op = "search", !.query = query,
                              !.top_k = top_k, !.results = results]
  /\ UNCHANGED << kb_file, GEMINI_API_KEY, _retriever_instance,
                  _chatbot_instance, retrievers, chatbots, lists, threads >>

CallGetContext(query, top_k) ==
  /\ \E g \in get_context(retrievers[_retriever_instance[1]], query, top_k) :
       call' = [NoCall EXCEPT !.op = "get_context", !.query = query,
                              !.top_k = top_k, !.results = g.results,
                              !.retrieved = g.retrieved]
  /\ UNCHANGED << kb_file, GEMINI_API_KEY, _retriever_instance,
                  _chatbot_instance, retrievers, chatbots, lists, threads >>

CallBuildPrompt(question) ==
  /\ \E b \in _build_prompt(
                retrievers[chatbots[_chatbot_instance[1]].retriever], question) :
       call' = [NoCall EXCEPT !.op = "_build_prompt", !.query = question,
                              !.results = b.results, !.retrieved = b.retrieved,
                              !.context = b.context, !.prompt = b.prompt]
  /\ UNCHANGED << kb_file, GEMINI_API_KEY, _retriever_instance,
                  _chatbot_instance, retrievers, chatbots, lists, threads >>

\* Retriever._expand_query(query), with the translation it starts from
CallExpandQuery(query) ==
  /\ call' = [NoCall EXCEPT !.op = "_expand_query", !.query = query,
                            !.translated = _translate_query(query),
                            !.expanded = _expand_query(query)]
  /\ UNCHANGED << kb_file, GEMINI_API_KEY, _retriever_instance,
                  _chatbot_instance, retrievers, chatbots, lists, threads >>

NextSearch ==
  \/ \E query \in SearchQueries, top_k \in TopKs : CallSearch(query, top_k)
  \/ \E query \in SearchQueries, top_k \in TopKs : CallGetContext(query, top_k)
  \/ \E question \in SearchQueries : CallBuildPrompt(question)

SpecSearch == InitSearch /\ [][NextSearch]_vars

\* the query preprocessing alone: it reads the two tables and nothing of
\* the index
NextQuery == \E query \in ExpandQueries : CallExpandQuery(query)

SpecQuery == InitSearch /\ [][NextQuery]_vars

\* search called with the text of a chunk of the corpus as the query
InitOwnText ==
  /\ kb_file \in {[exists |-> TRUE, data |-> kb] : kb \in OwnTextKBs}
  /\ GEMINI_API_KEY = "key"
  /\ _retriever_instance = <<1>>
  /\ _chatbot_instance = <<1>>
  /\ retrievers = With(<<>>, 1, Retriever(get_all_chunks(kb_file.data)))
  /\ chatbots = With(<<>>, 1, [retriever |-> 1, history |-> 1])
  /\ lists = [i \in ListIds |-> <<>>]
  /\ threads = [t \in Threads |-> Idle]
  /\ call = NoCall

NextOwnText ==
  \E i \in DOMAIN retrievers[_retriever_instance[1]].chunks, top_k \in TopKs :
    CallSearch(retrievers[_retriever_instance[1]].chunks[i].text, top_k)

SpecOwnText == InitOwnText /\ [][NextOwnText]_vars

(***************************************************************************)
(* The flattener run by itself on a knowledge document (the __main__ block *)
(* of knowledge_processor.py): no Retriever is constructed.                *)
(***************************************************************************)
InitChunks ==
  /\ kb_file \in {[exists |-> TRUE, data |-> kb] : kb \in PartialKBs}
  /\ GEMINI_API_KEY = "key"
  /\ _retriever_instance = <<>>
  /\ _chatbot_instance = <<>>
  /\ retrievers = <<>>
  /\ chatbots = <<>>
  /\ lists = [i \in ListIds |-> <<>>]
  /\ threads = [t \in Threads |-> Idle]
  /\ call = NoCall

\* a flattener that subscripts the FAQ entries (faq['question'],
\* faq['answer']): the call ends with KeyError where a key is missing
CallCreateChunksStrict ==
  /\ call' =
       IF \E i \in DOMAIN Get(kb_file.data, "faq", <<>>) :
            {"question", "answer"} \ DOMAIN kb_file.data.faq[i] # {}
       THEN [NoCall EXCEPT !.op = "create_chunks", !.error = "KeyError"]
       ELSE [NoCall EXCEPT !.op = "create_chunks",
                           !.chunks = get_all_chunks(kb_file.data)]
  /\ UNCHANGED << kb_file, GEMINI_API_KEY, _retriever_instance,
                  _chatbot_instance, retrievers, chatbots, lists, threads >>

\* chunks = get_all_chunks(): every read of the document is a .get() with a
\* default, so the call returns on every document of PartialKBs
CallCreateChunks ==
  /\ call' = [NoCall EXCEPT !.op = "create_chunks",
                            !.chunks = get_all_chunks(kb_file.data)]
  /\ UNCHANGED << kb_file, GEMINI_API_KEY, _retriever_instance,
                  _chatbot_instance, retrievers, chatbots, lists, threads >>

NextChunks == CallCreateChunks

SpecChunks == InitChunks /\ [][NextChunks]_vars

(***************************************************************************)
(* The service: callers of get_chatbot(), chat(message) and               *)
(* clear_history() running in threads, as the requests of a threaded       *)
(* server do.  app.py's server handles each request in a thread of its     *)
(* own (its chat handler passes language=..., which chat() does not take,  *)
(* so the threads here call chat(message) as api.py and main.py do);       *)
(* api.py's handlers run one at a time, which is the case of one thread    *)
(* running at a time here.  A thread is                                    *)
(* switched out where the code blocks: while the knowledge base is read    *)
(* and indexed, and while the generator is awaited.  The statements in     *)
(* between are taken as one step: "self.history[-4:]", "self.history = []" *)
(* and "self.history.append(...)" each read the attribute once and act on  *)
(* one list in a single interpreter operation, so a switch inside a step   *)
(* gives the histories some order of whole steps gives.  The Retriever or  *)
(* Chatbot a thread constructs gets the thread's number as its id.         *)
(***************************************************************************)
MainKBFiles ==
  {[exists |-> TRUE, data |-> KBSmall], [exists |-> FALSE, data |-> <<>>]}

Init ==
  /\ kb_file \in MainKBFiles
  /\ GEMINI_API_KEY \in {"key", ""}
  /\ _retriever_instance = <<>>
  /\ _chatbot_instance = <<>>
  /\ retrievers = <<>>
  /\ chatbots = <<>>
  /\ lists = [i \in ListIds |-> <<>>]
  /\ threads = [t \in Threads |-> Idle]
  /\ call = NoCall

\* the handler is entered and get_chatbot tests "_chatbot_instance is None"
\* (chatbot.py line 134)
Begin(t, op, msg) ==
  /\ threads[t].pc = "idle"
  /\ threads' = [threads EXCEPT ![t] =
       IF _chatbot_instance = <<>>
       THEN [Idle EXCEPT !.pc = "Chatbot.__init__", !.op = op, !.msg = msg]
       ELSE [Idle EXCEPT !.pc = "call", !.op = op, !.msg = msg,
                         !.chatbot = _chatbot_instance]]
  /\ UNCHANGED << kb_file, GEMINI_API_KEY, _retriever_instance,
                  _chatbot_instance, retrievers, chatbots, lists, call >>

\* a Chatbot.__init__ that does not test GEMINI_API_KEY
ChatbotInitLenient(t) ==
  /\ threads[t].pc = "Chatbot.__init__"
  /\ threads' = [threads EXCEPT ![t] =
       IF _retriever_instance = <<>>
       THEN [@ EXCEPT !.pc = "Retriever.__init__"]
       ELSE [@ EXCEPT !.pc = "Chatbot.history",
                      !.retriever = _retriever_instance]]
  /\ UNCHANGED << kb_file, GEMINI_API_KEY, _retriever_instance,
                  _chatbot_instance, retrievers, chatbots, lists, call >>

\* Chatbot.__init__ up to get_retriever's test "_retriever_instance is None"
\* (chatbot.py lines 42-55, retriever.py line 171)
ChatbotInit(t) ==
  /\ threads[t].pc = "Chatbot.__init__"
  /\ threads' = [threads EXCEPT ![t] =
       IF GEMINI_API_KEY = ""
       THEN [Idle EXCEPT !.result =
               "ValueError: GEMINI_API_KEY not found in environment variables"]
       ELSE IF _retriever_instance = <<>>
       THEN [@ EXCEPT !.pc = "Retriever.__init__"]
       ELSE [@ EXCEPT !.pc = "Chatbot.history",
                      !.retriever = _retriever_instance]]
  /\ UNCHANGED << kb_file, GEMINI_API_KEY, _retriever_instance,
                  _chatbot_instance, retrievers, chatbots, lists, call >>

\* Retriever() and the assignment to the singleton (retriever.py lines
\* 63-78 and 172)
RetrieverInit(t) ==
  /\ threads[t].pc = "Retriever.__init__"
  /\ LET self == Retriever(get_all_chunks(kb_file.data))
     IN  IF ~kb_file.exists
         THEN /\ threads' = [threads EXCEPT ![t] =
                   [Idle EXCEPT !.result = "FileNotFoundError: knowledge_base.json"]]
              /\ UNCHANGED << retrievers, _retriever_instance >>
         ELSE IF ~self.ok
         THEN /\ threads' = [threads EXCEPT ![t] =
                   [Idle EXCEPT !.result = "ValueError: empty vocabulary"]]
              /\ UNCHANGED << retrievers, _retriever_instance >>
         ELSE /\ _retriever_instance' = <<t>>
              /\ threads' = [threads EXCEPT ![t].pc = "Chatbot.history",
                                            ![t].retriever = <<t>>]
              /\ retrievers' =
                   Collect(chatbots, lists, With(retrievers, t, self), threads',
                           _chatbot_instance, _retriever_instance').retrievers
  /\ UNCHANGED << kb_file, GEMINI_API_KEY, _chatbot_instance, chatbots,
                  lists, call >>

\* the rest of Chatbot.__init__ and the assignment to the singleton
\* (chatbot.py lines 57-60 and 135-136)
ChatbotReady(t) ==
  /\ threads[t].pc = "Chatbot.history"
  /\ _chatbot_instance' = <<t>>
  /\ threads' = [threads EXCEPT ![t].pc = "call", ![t].chatbot = <<t>>,
                                ![t].retriever = <<>>]
  /\ LET after == Collect(
                    With(chatbots, t, [retriever |-> threads[t].retriever[1],
                                       history |-> FreeList]),
                    [lists EXCEPT ![FreeList] = <<>>],
                    retrievers, threads', _chatbot_instance', _retriever_instance)
     IN  /\ chatbots' = after.chatbots
         /\ lists' = after.lists
         /\ retrievers' = after.retrievers
  /\ UNCHANGED << kb_file, GEMINI_API_KEY, _retriever_instance, call >>

\* a clear_history that empties a copy: self.history[:].clear()
ClearHistoryOfCopy(t) ==
  /\ threads[t].pc = "call"
  /\ threads[t].op = "clear"
  /\ threads' = [threads EXCEPT ![t] = [Idle EXCEPT !.result = "cleared"]]
  /\ LET after == Collect(chatbots, lists, retrievers, threads',
                          _chatbot_instance, _retriever_instance)
     IN  /\ chatbots' = after.chatbots
         /\ lists' = after.lists
         /\ retrievers' = after.retrievers
  /\ UNCHANGED << kb_file, GEMINI_API_KEY, _retriever_instance,
                  _chatbot_instance, call >>

\* Chatbot.clear_history: self.history = [] (the old list is released)
ClearHistory(t) ==
  /\ threads[t].pc = "call"
  /\ threads[t].op = "clear"
  /\ threads' = [threads EXCEPT ![t] = [Idle EXCEPT !.result = "cleared"]]
  /\ LET c == threads[t].chatbot[1]
         new == FreeList
         after == Collect([chatbots EXCEPT ![c].history = new],
                          [lists EXCEPT ![new] = <<>>],
                          retrievers, threads', _chatbot_instance,
                          _retriever_instance)
     IN  /\ chatbots' = after.chatbots
         /\ lists' = after.lists
         /\ retrievers' = after.retrievers
  /\ UNCHANGED << kb_file, GEMINI_API_KEY, _retriever_instance,
                  _chatbot_instance, call >>

\* a chat whose search learns the terms of the query (the vectorizer is
\* fitted again instead of applied)
ChatSendRefit(t) ==
  /\ threads[t].pc = "call"
  /\ threads[t].op = "chat"
  /\ LET c == threads[t].chatbot[1]
         r == chatbots[c].retriever
         terms == Analyze(_expand_query(threads[t].msg))
     IN  /\ \E b \in _build_prompt(retrievers[r], threads[t].msg) :
               threads' = [threads EXCEPT
                 ![t].pc = "generating",
                 ![t].prompt = b.prompt,
                 ![t].messages = BuildMessages(HistoryOf(c), b.prompt)]
         /\ retrievers' = [retrievers EXCEPT ![r].vectorizer.vocabulary =
                             @ \cup {terms[i] : i \in 1..Len(terms)}]
  /\ UNCHANGED << kb_file, GEMINI_API_KEY, _retriever_instance,
                  _chatbot_instance, chatbots, lists, call >>

\* Chatbot.chat, lines 84-97: the prompt is built, the history window is
\* read and the request is sent to the generator
ChatSend(t) ==
  /\ threads[t].pc = "call"
  /\ threads[t].op = "chat"
  /\ LET c == threads[t].chatbot[1]
     IN  \E b \in _build_prompt(retrievers[chatbots[c].retriever], threads[t].msg) :
           threads' = [threads EXCEPT
             ![t].pc = "generating",
             ![t].prompt = b.prompt,
             ![t].messages = BuildMessages(HistoryOf(c), b.prompt)]
  /\ UNCHANGED << kb_file, GEMINI_API_KEY, _retriever_instance,
                  _chatbot_instance, retrievers, chatbots, lists, call >>

\* lines 98-110: the generator answers; the turn is appended and returned
ChatReply(t, reply, limit) ==
  /\ threads[t].pc = "generating"
  /\ Len(HistoryOf(threads[t].chatbot[1])) < limit
  /\ threads' = [threads EXCEPT ![t] = [Idle EXCEPT !.result = reply]]
  /\ LET c == threads[t].chatbot[1]
         after == Collect(chatbots,
                    [lists EXCEPT ![chatbots[c].history] =
                       AppendTurn(@, threads[t].msg, reply)],
                    retrievers, threads', _chatbot_instance, _retriever_instance)
     IN  /\ chatbots' = after.chatbots
         /\ lists' = after.lists
         /\ retrievers' = after.retrievers
  /\ UNCHANGED << kb_file, GEMINI_API_KEY, _retriever_instance,
                  _chatbot_instance, call >>

\* an except branch that records the apology as the assistant's turn
ChatErrorRecorded(t, e) ==
  /\ threads[t].pc = "generating"
  /\ threads' = [threads EXCEPT ![t] = [Idle EXCEPT !.result = Apology(e)]]
  /\ LET c == threads[t].chatbot[1]
         after == Collect(chatbots,
                    [lists EXCEPT ![chatbots[c].history] =
                       AppendTurn(@, threads[t].msg, Apology(e))],
                    retrievers, threads', _chatbot_instance, _retriever_instance)
     IN  /\ chatbots' = after.chatbots
         /\ lists' = after.lists
         /\ retrievers' = after.retrievers
  /\ UNCHANGED << kb_file, GEMINI_API_KEY, _retriever_instance,
                  _chatbot_instance, call >>

\* lines 112-115: send_message or response.text raised
ChatError(t, e) ==
  /\ threads[t].pc = "generating"
  /\ threads' = [threads EXCEPT ![t] = [Idle EXCEPT !.result = Apology(e)]]
  /\ LET after == Collect(chatbots, lists, retrievers, threads',
                          _chatbot_instance, _retriever_instance)
     IN  /\ chatbots' = after.chatbots
         /\ lists' = after.lists
         /\ retrievers' = after.retrievers
  /\ UNCHANGED << kb_file, GEMINI_API_KEY, _retriever_instance,
                  _chatbot_instance, call >>

Next ==
  \/ \E t \in Threads, msg \in ChatMessages : Begin(t, "chat", msg)
  \/ \E t \in Threads : Begin(t, "clear", "")
  \/ \E t \in Threads : ChatbotInit(t)
  \/ \E t \in Threads : RetrieverInit(t)
  \/ \E t \in Threads : ChatbotReady(t)
  \/ \E t \in Threads : ClearHistory(t)
  \/ \E t \in Threads : ChatSend(t)
  \/ \E t \in Threads, reply \in {ServiceReply} : ChatReply(t, reply, MaxTurns)
  \/ \E t \in Threads, e \in GeneratorErrors : ChatError(t, e)

Spec == Init /\ [][Next]_vars

(***************************************************************************)
(* One caller, one call at a time (the loop of chatbot.py's __main__       *)
(* block): long histories, several replies.                                *)
(***************************************************************************)
NextSequential ==
  \/ \E msg \in ChatMessages : Begin(1, "chat", msg)
  \/ Begin(1, "clear", "")
  \/ ChatbotInit(1)
  \/ RetrieverInit(1)
  \/ ChatbotReady(1)
  \/ ClearHistory(1)
  \/ ChatSend(1)
  \/ \E reply \in Replies : ChatReply(1, reply, MaxHistory)
  \/ \E e \in GeneratorErrors : ChatError(1, e)

SpecSequential == Init /\ [][NextSequential]_vars

(***************************************************************************)
(* The same caller also calls get_history() between its calls and keeps    *)
(* the list it is given.                                                   *)
(***************************************************************************)
\* a get_history that returns list(self.history)
GetHistoryCopy ==
  /\ threads[1].pc = "idle"
  /\ _chatbot_instance # <<>>
  /\ LET c == _chatbot_instance[1]
         new == FreeList
     IN  /\ call' = [NoCall EXCEPT !.op = "get_history", !.ref = << new >>]
         /\ lists' = [i \in ListIds |->
                        IF i = new THEN HistoryOf(c)
                        ELSE IF i = chatbots[c].history THEN lists[i]
                        ELSE <<>>]
  /\ UNCHANGED << kb_file, GEMINI_API_KEY, _retriever_instance,
                  _chatbot_instance, retrievers, chatbots, threads >>

\* Chatbot.get_history: return self.history.  The caller's variable is bound
\* to the list; the list it held before, if no history, is released.
GetHistory ==
  /\ threads[1].pc = "idle"
  /\ _chatbot_instance # <<>>
  /\ LET c == _chatbot_instance[1]
     IN  /\ call' = [NoCall EXCEPT !.op = "get_history",
                                   !.ref = << chatbots[c].history >>]
         /\ lists' = [i \in ListIds |->
                        IF i = chatbots[c].history THEN lists[i] ELSE <<>>]
  /\ UNCHANGED << kb_file, GEMINI_API_KEY, _retriever_instance,
                  _chatbot_instance, retrievers, chatbots, threads >>

NextHistoryRef ==
  \/ \E msg \in ChatMessages : Begin(1, "chat", msg)
  \/ Begin(1, "clear", "")
  \/ ChatbotInit(1)
  \/ RetrieverInit(1)
  \/ ChatbotReady(1)
  \/ ClearHistory(1)
  \/ ChatSend(1)
  \/ \E reply \in Replies : ChatReply(1, reply, MaxTurns)
  \/ \E e \in GeneratorErrors : ChatError(1, e)
  \/ GetHistory

SpecHistoryRef == Init /\ [][NextHistoryRef]_vars

(***************************************************************************)
(* api.py: the handlers of the FastAPI application.  They are coroutines   *)
(* without an await, so the event loop runs one request at a time: the     *)
(* requests are the calls of the single caller.                            *)
(***************************************************************************)
\* the exception classes that "except Exception" catches; KeyboardInterrupt
\* derives from BaseException only
ExceptionSubclasses ==
  {"HTTPException", "ValueError", "TypeError", "FileNotFoundError"}

HTTPException(status_code, detail) ==
  [class |-> "HTTPException", status_code |-> status_code, detail |-> detail]

\* str(e) of an HTTPException: "<status_code>: <detail>" where the class
\* defines __str__, and "" where it does not (older releases of the
\* framework, whose __init__ passes no argument to Exception)
StrOfHTTPException(e) == {ToString(e.status_code) \o ": " \o e.detail, ""}

\* the exception that leaves the try statement of a handler when e is raised
\* inside it: except Exception as e: raise HTTPException(500, str(e))
\* (lines 363-364)
ApiExcept(e) ==
  IF e.class \in ExceptionSubclasses
  THEN {HTTPException(500, detail) : detail \in StrOfHTTPException(e)}
  ELSE {e}

ApiMessages == {""} \cup ChatMessages

\* POST /api/chat, lines 354-358: the test of the message and, for a message
\* that is not empty, the entry into get_chatbot(); the response to a
\* rejected request is kept in call
ApiChat(message) ==
  /\ threads[1].pc = "idle"
  /\ IF message = ""
     THEN /\ \E e \in ApiExcept(HTTPException(400, "No message provided")) :
               call' = [NoCall EXCEPT !.op = "POST /api/chat",
                                      !.query = message,
                                      !.status = e.status_code,
                                      !.body = e.detail]
          /\ UNCHANGED << kb_file, GEMINI_API_KEY, _retriever_instance,
                          _chatbot_instance, retrievers, chatbots, lists,
                          threads >>
     ELSE Begin(1, "chat", message)

NextApi ==
  \/ \E message \in ApiMessages : ApiChat(message)
  \/ Begin(1, "clear", "")
  \/ ChatbotInit(1)
  \/ RetrieverInit(1)
  \/ ChatbotReady(1)
  \/ ClearHistory(1)
  \/ ChatSend(1)
  \/ \E reply \in Replies : ChatReply(1, reply, MaxTurns)
  \/ \E e \in GeneratorErrors : ChatError(1, e)

SpecApi == Init /\ [][NextApi]_vars

(***************************************************************************)
(* app.py: the handlers of the Flask application, each request in a thread *)
(* of its own.                                                             *)
(***************************************************************************)
\* what the call chatbot.chat(message, language=language) of line 481
\* raises: chat(self, user_message) takes no such argument
ChatTypeError ==
  "TypeError: Chatbot.chat() got an unexpected keyword argument 'language'"

\* POST /chat, lines 473-480: the message is read and tested; an empty one
\* is answered with 400, any other enters get_chatbot()
FlaskChat(t, message) ==
  /\ threads[t].pc = "idle"
  /\ IF message = ""
     THEN /\ call' = [NoCall EXCEPT !.op = "POST /chat", !.query = message,
                                    !.status = 400,
                                    !.body = "No message provided"]
          /\ UNCHANGED << kb_file, GEMINI_API_KEY, _retriever_instance,
                          _chatbot_instance, retrievers, chatbots, lists,
                          threads >>
     ELSE Begin(t, "chat", message)

\* line 481: the call raises TypeError before the body of chat runs; the
\* handler's except clause answers with the error and status 500
FlaskChatCall(t) ==
  /\ threads[t].pc = "call"
  /\ threads[t].op = "chat"
  /\ threads' = [threads EXCEPT ![t] = [Idle EXCEPT !.result = ChatTypeError]]
  /\ LET after == Collect(chatbots, lists, retrievers, threads',
                          _chatbot_instance, _retriever_instance)
     IN  /\ chatbots' = after.chatbots
         /\ lists' = after.lists
         /\ retrievers' = after.retrievers
  /\ UNCHANGED << kb_file, GEMINI_API_KEY, _retriever_instance,
                  _chatbot_instance, call >>

NextFlask ==
  \/ \E t \in Threads, message \in ApiMessages : FlaskChat(t, message)
  \/ \E t \in Threads : Begin(t, "clear", "")
  \/ \E t \in Threads : ChatbotInit(t)
  \/ \E t \in Threads : RetrieverInit(t)
  \/ \E t \in Threads : ChatbotReady(t)
  \/ \E t \in Threads : ClearHistory(t)
  \/ \E t \in Threads : FlaskChatCall(t)

SpecFlask == Init /\ [][NextFlask]_vars

(***************************************************************************)
(* main.py: the command-line loop.  Thread 1 is the program; its position  *)
(* "call" under the operation "main" is the prompt of input().             *)
(***************************************************************************)
CliLines ==
  {"", "  ", "quit", " QUIT ", "clear", "Clear ", "zzz", " whiteboard tools "}

\* a dispatch that compares the input as typed, without .lower()
CommandCaseSensitive(user_input) ==
  IF user_input = "" THEN "continue"
  ELSE IF user_input = "quit" THEN "break"
  ELSE IF user_input = "clear" THEN "clear_history"
  ELSE "chat"

\* lines 28-41: what the loop does with the stripped input
Command(user_input) ==
  IF user_input = "" THEN "continue"
  ELSE IF lower(user_input) = "quit" THEN "break"
  ELSE IF lower(user_input) = "clear" THEN "clear_history"
  ELSE "chat"

\* lines 17-22: chatbot = get_chatbot()
MainStart == Begin(1, "main", "")

\* one pass of the loop up to the next input() or to the generator: the
\* line is read and stripped (line 26) and the command is carried out; call
\* keeps the line and counts the lines read
MainInput(line) ==
  /\ threads[1].pc = "call"
  /\ threads[1].op = "main"
  /\ call.seq < MaxInputs
  /\ call' = [NoCall EXCEPT !.op = "input", !.query = line,
                            !.seq = call.seq + 1]
  /\ LET user_input == strip(line)
         c == threads[1].chatbot[1]
         new == FreeList
         cleared == Collect([chatbots EXCEPT ![c].history = new],
                            [lists EXCEPT ![new] = <<>>],
                            retrievers, threads, _chatbot_instance,
                            _retriever_instance)
     IN  CASE Command(user_input) = "continue" ->
                UNCHANGED << threads, chatbots, lists, retrievers >>
           [] Command(user_input) = "break" ->
                /\ threads' = [threads EXCEPT ![1] = [Idle EXCEPT !.pc = "exited"]]
                /\ UNCHANGED << chatbots, lists, retrievers >>
           [] Command(user_input) = "clear_history" ->
                /\ chatbots' = cleared.chatbots
                /\ lists' = cleared.lists
                /\ retrievers' = cleared.retrievers
                /\ threads' = [threads EXCEPT ![1].result = "cleared"]
           [] Command(user_input) = "chat" ->
                /\ \E b \in _build_prompt(retrievers[chatbots[c].retriever],
                                          user_input) :
                     threads' = [threads EXCEPT
                       ![1].pc = "generating",
                       ![1].msg = user_input,
                       ![1].prompt = b.prompt,
                       ![1].messages = BuildMessages(HistoryOf(c), b.prompt)]
                /\ UNCHANGED << chatbots, lists, retrievers >>
  /\ UNCHANGED << kb_file, GEMINI_API_KEY, _retriever_instance,
                  _chatbot_instance >>

\* chat returns the generator's reply, which is printed (lines 41-42)
MainChatReply(reply) ==
  /\ threads[1].pc = "generating"
  /\ threads[1].op = "main"
  /\ threads' = [threads EXCEPT ![1].pc = "call", ![1].result = reply,
                                ![1].prompt = "", ![1].messages = <<>>]
  /\ lists' = [lists EXCEPT ![chatbots[threads[1].chatbot[1]].history] =
                 AppendTurn(@, threads[1].msg, reply)]
  /\ UNCHANGED << kb_file, GEMINI_API_KEY, _retriever_instance,
                  _chatbot_instance, retrievers, chatbots, call >>

\* the generator raised: chat returns its apology, which is printed
MainChatError(e) ==
  /\ threads[1].pc = "generating"
  /\ threads[1].op = "main"
  /\ threads' = [threads EXCEPT ![1].pc = "call", ![1].result = Apology(e),
                                ![1].prompt = "", ![1].messages = <<>>]
  /\ UNCHANGED << kb_file, GEMINI_API_KEY, _retriever_instance,
                  _chatbot_instance, retrievers, chatbots, lists, call >>

\* KeyboardInterrupt at input() or while chat awaits the generator: it is
\* no Exception, so chat does not catch it, and the loop breaks (lines
\* 44-46)
MainInterrupt ==
  /\ threads[1].pc \in {"call", "generating"}
  /\ threads[1].op = "main"
  /\ threads' = [threads EXCEPT ![1] = [Idle EXCEPT !.pc = "exited"]]
  /\ UNCHANGED << kb_file, GEMINI_API_KEY, _retriever_instance,
                  _chatbot_instance, retrievers, chatbots, lists, call >>

NextMain ==
  \/ MainStart
  \/ ChatbotInit(1)
  \/ RetrieverInit(1)
  \/ ChatbotReady(1)
  \/ \E line \in CliLines : MainInput(line)
  \/ \E reply \in Replies : MainChatReply(reply)
  \/ \E e \in GeneratorErrors : MainChatError(e)
  \/ MainInterrupt

SpecMain == Init /\ [][NextMain]_vars

\* the same caller on a service whose knowledge_base.json is "{}"
InitEmptyDocument ==
  /\ kb_file = [exists |-> TRUE, data |-> KBEmpty]
  /\ GEMINI_API_KEY \in {"key", ""}
  /\ _retriever_instance = <<>>
  /\ _chatbot_instance = <<>>
  /\ retrievers = <<>>
  /\ chatbots = <<>>
  /\ lists = [i \in ListIds |-> <<>>]
  /\ threads = [t \in Threads |-> Idle]
  /\ call = NoCall

SpecEmptyDocument == InitEmptyDocument /\ [][NextSequential]_vars

(***************************************************************************)
(* Properties of search, get_context and _build_prompt (under SpecSearch). *)
(***************************************************************************)
\* the count search is asked for: top_k, or the configured default for None
RequestedCount(top_k) == IF top_k = <<>> THEN TOP_K_RESULTS ELSE top_k[1]

\* C1: for every query and every requested count k, k = 0 included, search
\* returns at most k results, and every result's score is strictly positive
C1_AtMostKPositive ==
  call.op = "search" =>
    /\ Len(call.results) <= RequestedCount(call.top_k)
    /\ \A i \in 1..Len(call.results) : call.results[i].score > 0

\* C2: search's results are in descending order of score, and of two results
\* with the same score the one with the lower chunk index comes first
C2_DescendingStable ==
  call.op = "search" =>
    \A i, j \in 1..Len(call.results) :
      i < j =>
        \/ call.results[i].score > call.results[j].score
        \/ /\ call.results[i].score = call.results[j].score
           /\ call.results[i].idx < call.results[j].idx

\* C9: the context get_context returns, and the context _build_prompt puts
\* in the prompt, are never longer than MAX_CONTEXT_LENGTH characters
C9_ContextBounded ==
  /\ call.op = "get_context" => Len(call.retrieved) <= MAX_CONTEXT_LENGTH
  /\ call.op = "_build_prompt" => Len(call.context) <= MAX_CONTEXT_LENGTH

\* C10: get_context returns the sentinel exactly when search found nothing,
\* and never returns the empty string
C10_SentinelIffNoResults ==
  call.op = "get_context" =>
    /\ (call.retrieved = NO_RESULTS) <=> (call.results = <<>>)
    /\ call.retrieved # ""

\* get_context calls of both kinds have happened for one corpus: this one
\* found nothing and got the sentinel
C10_Witness ==
  /\ call.op = "get_context"
  /\ call.query = "zzz"
  /\ call.results = <<>>
  /\ call.retrieved = NO_RESULTS

(***************************************************************************)
(* Properties of the conversation history and of the singletons.           *)
(***************************************************************************)
\* the steps of thread t, told by its position before and after
SendsBy(t) ==
  /\ threads[t].pc = "call"
  /\ threads[t].op = "chat"
  /\ threads'[t].pc = "generating"

ReturnsFromChat(t) == threads[t].pc = "generating" /\ threads'[t].pc = "idle"

ClearsBy(t) ==
  /\ threads[t].pc = "call"
  /\ threads[t].op = "clear"
  /\ threads'[t].pc = "idle"

\* the fixed part of the string chat returns from its except branch
ApologyPrefix == "I'm sorry, I encountered an error. Please try again."

IsApology(s) ==
  /\ Len(s) >= Len(ApologyPrefix)
  /\ SubSeq(s, 1, Len(ApologyPrefix)) = ApologyPrefix

\* the two messages chat sends for a turn of the history
UserMessage(turn) == [role |-> "user", parts |-> << turn.user >>]
ModelMessage(turn) == [role |-> "model", parts |-> << turn.assistant >>]

\* C3: the prior turns chat sends to the generator are exactly the last
\* min(4, len(history)) turns of the history, oldest first, each as its user
\* message followed by its reply, and then the prompt
C3_WindowIsLastFour ==
  [][\A t \in Threads :
       SendsBy(t) =>
         LET h == HistoryOf(threads[t].chatbot[1])
             n == Min(4, Len(h))
             m == threads'[t].messages
         IN  /\ Len(m) = 2 * n + 1
             /\ \A i \in 1..n :
                  /\ m[2 * i - 1] = UserMessage(h[Len(h) - n + i])
                  /\ m[2 * i] = ModelMessage(h[Len(h) - n + i])
             /\ m[2 * n + 1].parts = << threads'[t].prompt >>]_vars

\* chat is awaiting the generator with five turns stored, the first of them
\* not among the eight history messages it sent
C3_Witness ==
  \E t \in Threads :
    /\ threads[t].pc = "generating"
    /\ Len(HistoryOf(threads[t].chatbot[1])) = 5
    /\ Len(threads[t].messages) = 9
    /\ threads[t].messages[1] =
         UserMessage(HistoryOf(threads[t].chatbot[1])[2])
    /\ HistoryOf(threads[t].chatbot[1])[1] # HistoryOf(threads[t].chatbot[1])[2]

\* the turn a chat of thread t that returns in this step is to store
TurnOf(t) == [user |-> threads[t].msg, assistant |-> threads'[t].result]

\* the Chatbot objects that exist before and after a step
Surviving == DOMAIN chatbots \cap DOMAIN chatbots'

\* C4: when clear_history returns the history is empty; an empty history
\* stays empty until a chat that succeeds appends its turn, which is then
\* the only turn; and chat sends no history messages while it is empty.  So
\* no turn stored before the clear is seen again.
C4_ClearEmpties ==
  [][/\ \A t \in Threads :
          ClearsBy(t) =>
            \A c \in DOMAIN chatbots' :
              threads[t].chatbot = <<c>> => HistoryOf(c)' = <<>>
     /\ \A c \in Surviving :
          HistoryOf(c) = <<>> =>
            \/ HistoryOf(c)' = <<>>
            \/ \E t \in Threads :
                 /\ ReturnsFromChat(t)
                 /\ threads[t].chatbot = <<c>>
                 /\ ~IsApology(threads'[t].result)
                 /\ HistoryOf(c)' = << TurnOf(t) >>
     /\ \A t \in Threads :
          (SendsBy(t) /\ HistoryOf(threads[t].chatbot[1]) = <<>>) =>
            Len(threads'[t].messages) = 1]_vars

\* clear_history has returned and the history is empty, although a chat
\* still awaiting the generator read a turn from it before
C4_Witness ==
  \E t, u \in Threads :
    /\ threads[t].result = "cleared"
    /\ threads[u].pc = "generating"
    /\ Len(threads[u].messages) = 3
    /\ threads[u].chatbot = _chatbot_instance
    /\ HistoryOf(threads[u].chatbot[1]) = <<>>

\* C5: between a chat's read of the history window and that chat's append,
\* no other caller's append or clear changes the history
C5_NoInterleavedMutation ==
  [][\A t \in Threads :
       (threads[t].pc = "generating" /\ threads'[t].pc = "generating") =>
         HistoryOf(threads[t].chatbot[1])' = HistoryOf(threads[t].chatbot[1])]_vars

\* C6: at most one Retriever and one Chatbot are constructed, and every
\* caller of get_chatbot holds that one Chatbot
C6_OneInstance ==
  /\ Cardinality(DOMAIN retrievers) <= 1
  /\ Cardinality(DOMAIN chatbots) <= 1
  /\ \A t \in Threads :
       threads[t].chatbot # <<>> => threads[t].chatbot = _chatbot_instance

\* C7: when the generator fails chat returns (it does not raise) the apology
\* string, and neither that step nor the chat's earlier step changes a
\* history
C7_FailureKeepsHistory ==
  [][/\ \A t \in Threads, e \in GeneratorErrors :
          ChatError(t, e) =>
            /\ threads'[t].pc = "idle"
            /\ IsApology(threads'[t].result)
            /\ \A c \in Surviving : HistoryOf(c)' = HistoryOf(c)
     /\ \A t \in Threads :
          SendsBy(t) => \A c \in Surviving : HistoryOf(c)' = HistoryOf(c)]_vars

\* a chat has returned the apology and the turns stored before it are
\* still there
C7_Witness ==
  /\ _chatbot_instance # <<>>
  /\ Len(HistoryOf(_chatbot_instance[1])) >= 1
  /\ \E t \in Threads : IsApology(threads[t].result)

\* C8: a step that is not a clear leaves a history as it is or, when a chat
\* succeeds, adds that chat's turn (the raw message and the reply) at the
\* end; every chat that succeeds adds its turn, whatever the length
C8_AppendOnly ==
  [][\A c \in Surviving :
       /\ \/ HistoryOf(c)' = HistoryOf(c)
          \/ \E t \in Threads : ClearsBy(t) /\ threads[t].chatbot = <<c>>
          \/ \E t \in Threads :
               /\ ReturnsFromChat(t)
               /\ threads[t].chatbot = <<c>>
               /\ HistoryOf(c)' = Append(HistoryOf(c), TurnOf(t))
       /\ \A t \in Threads :
            ( /\ ReturnsFromChat(t)
              /\ threads[t].chatbot = <<c>>
              /\ ~IsApology(threads'[t].result) ) =>
              HistoryOf(c)' = Append(HistoryOf(c), TurnOf(t))]_vars

\* the fifth chat has just returned and all five turns are stored, the
\* first not the same as the last
C8_Witness ==
  /\ _chatbot_instance # <<>>
  /\ LET h == HistoryOf(_chatbot_instance[1])
     IN  /\ Len(h) = 5
         /\ h[1] # h[5]
         /\ \E t \in Threads :
              threads[t].pc = "idle" /\ threads[t].result = h[5].assistant

(***************************************************************************)
(* Properties of the query preprocessing and of the index.                 *)
(***************************************************************************)
\* the Retriever the direct calls are made on
TheRetriever == retrievers[_retriever_instance[1]]

\* the terms of the expanded query that are in the index vocabulary
KnownTerms(self, query) ==
  LET terms == Analyze(_expand_query(query))
  IN  {terms[i] : i \in 1..Len(terms)} \cap self.vectorizer.vocabulary

\* C11: when no term of the expanded query is in the vocabulary (the empty
\* and the blank query included), search returns the empty list and
\* get_context the sentinel; the call completes
C11_VocabularyMiss ==
  ( /\ call.op \in {"search", "get_context"}
    /\ KnownTerms(TheRetriever, call.query) = {} ) =>
    /\ call.results = <<>>
    /\ call.op = "get_context" => call.retrieved = NO_RESULTS

\* get_context of a blank query has returned the sentinel
C11_Witness ==
  /\ call.op = "get_context"
  /\ call.query = "   "
  /\ KnownTerms(TheRetriever, call.query) = {}
  /\ call.results = <<>>
  /\ call.retrieved = NO_RESULTS

\* C12: _expand_query appends at most one phrase of QUERY_EXPANSIONS to the
\* translated query, also when several keywords are in the query
C12_AtMostOneExpansion ==
  call.op = "_expand_query" =>
    \/ call.expanded = call.translated
    \/ \E i \in 1..Len(QUERY_EXPANSIONS) :
         call.expanded = call.translated \o " " \o QUERY_EXPANSIONS[i][2]

\* a query with the keywords of two entries got one phrase
C12_Witness ==
  /\ call.op = "_expand_query"
  /\ call.query = "CLASS doubt"
  /\ call.expanded = "CLASS doubt class live session audio video meeting"

\* the entries of HINDI_TO_ENGLISH whose keyword is in the query
Translating(query) ==
  {i \in 1..Len(HINDI_TO_ENGLISH) : Contains(query, HINDI_TO_ENGLISH[i][1])}

\* C13: the gloss of every entry of HINDI_TO_ENGLISH whose keyword is in the
\* raw query is in the translated and in the expanded query, and every such
\* entry has added its own gloss (the translated query is longer than the
\* raw one by all their lengths)
C13_AllGlossesApply ==
  call.op = "_expand_query" =>
    /\ \A i \in Translating(call.query) :
         /\ Contains(call.translated, HINDI_TO_ENGLISH[i][2])
         /\ Contains(call.expanded, HINDI_TO_ENGLISH[i][2])
    /\ Len(call.translated) =
         Len(call.query)
         + SumOver([i \in Translating(call.query) |->
                      1 + Len(HINDI_TO_ENGLISH[i][2])],
                   Translating(call.query))

\* a query with two keywords got both glosses, in the table's order
C13_Witness ==
  /\ call.op = "_expand_query"
  /\ call.query = "#shikshak #kya"
  /\ call.translated = "#shikshak #kya what is teacher"

\* C20: the phrase appended is that of the first entry of QUERY_EXPANSIONS,
\* in the table's order, whose keyword is in the lowercased translated
\* query (a keyword that came with a gloss counts); it is appended once,
\* and nothing is appended when no keyword is found
C20_FirstMatchWins ==
  call.op = "_expand_query" =>
    LET low == lower(call.translated)
        Hit(i) == Contains(low, QUERY_EXPANSIONS[i][1])
    IN  /\ (\A i \in 1..Len(QUERY_EXPANSIONS) : ~Hit(i)) =>
             call.expanded = call.translated
        /\ \A i \in 1..Len(QUERY_EXPANSIONS) :
             (Hit(i) /\ \A j \in 1..(i - 1) : ~Hit(j)) =>
               call.expanded = call.translated \o " " \o QUERY_EXPANSIONS[i][2]

\* "learn" is in the query and "teach" only in the gloss "teacher": the
\* phrase of "teach", the earlier entry, was appended
C20_Witness ==
  /\ call.op = "_expand_query"
  /\ call.query = "Learn #shikshak"
  /\ call.expanded =
       "Learn #shikshak teacher teach teacher teaching instructor create course upload"

\* C19: when search is called with the exact text of a chunk c as the query,
\* no chunk gets a strictly higher score than c, and no returned result has
\* a score above c's
C19_OwnTextOnTop ==
  call.op = "search" =>
    \A i \in DOMAIN TheRetriever.chunks :
      TheRetriever.chunks[i].text = call.query =>
        /\ \A j \in DOMAIN TheRetriever.chunks :
             Similarities(TheRetriever, call.query)[j]
               <= Similarities(TheRetriever, call.query)[i]
        /\ \A r \in DOMAIN call.results :
             call.results[r].score
               <= Similarities(TheRetriever, call.query)[i]

\* C17: once a Retriever is constructed, no call of chat (which calls
\* get_context and search) or of clear_history changes its chunk list, its
\* vocabulary, its idf weights or its chunk vectors
C17_IndexFrozen ==
  [][\A r \in DOMAIN retrievers \cap DOMAIN retrievers' :
       retrievers'[r] = retrievers[r]]_vars

\* a chat with a query of unknown tokens has been answered and recorded, and
\* the index is still the one fitted on the knowledge base
C17_Witness ==
  /\ _retriever_instance # <<>>
  /\ _chatbot_instance # <<>>
  /\ \E i \in DOMAIN HistoryOf(_chatbot_instance[1]) :
       HistoryOf(_chatbot_instance[1])[i].user = "zzz"
  /\ "zzz" \notin TheRetriever.vectorizer.vocabulary
  /\ Analyze("zzz") = << "zzz" >>
  /\ TheRetriever = Retriever(get_all_chunks(kb_file.data))

\* the parts get_context joins: every result's category and whole text
C18_Parts ==
  [i \in 1..Len(call.results) |->
     "[" \o call.results[i].chunk.category \o "]: "
         \o call.results[i].chunk.text]

\* C18: the context in the prompt is the whole joined context when that is
\* at most MAX_CONTEXT_LENGTH characters long, and otherwise its first
\* MAX_CONTEXT_LENGTH characters followed by "..."; the joined context holds
\* every chunk in full (nothing is cut per chunk)
C18_TruncatedOnce ==
  call.op = "_build_prompt" =>
    /\ call.results # <<>> => call.retrieved = Join("\n\n", C18_Parts)
    /\ Len(call.retrieved) <= MAX_CONTEXT_LENGTH =>
         call.context = call.retrieved
    /\ Len(call.retrieved) > MAX_CONTEXT_LENGTH =>
         call.context = SubSeq(call.retrieved, 1, MAX_CONTEXT_LENGTH) \o "..."
    /\ call.prompt =
         "Based on the following context from NavShiksha knowledge base, answer the user's question.\n\nCONTEXT:\n"
         \o call.context \o "\n\nUSER QUESTION: " \o call.query \o "\n\nANSWER:"

\* a prompt was built from several chunks whose join is longer than
\* MAX_CONTEXT_LENGTH, one of them longer than that by itself
C18_Witness ==
  /\ call.op = "_build_prompt"
  /\ Len(call.results) >= 2
  /\ \E i \in DOMAIN call.results :
       Len(call.results[i].chunk.text) > MAX_CONTEXT_LENGTH
  /\ Len(call.retrieved) > MAX_CONTEXT_LENGTH
  /\ Len(call.context) = MAX_CONTEXT_LENGTH + 3

(***************************************************************************)
(* Properties of the flattener (under SpecChunks).                         *)
(***************************************************************************)
\* the categories of the chunks made from a top-level section or from a
\* feature group
SectionCategories ==
  [s \in (TopSections \ {"features"}) \cup FeatureGroups |->
     CASE s = "project" -> {"Project Overview"}
       [] s = "architecture" -> {"Architecture"}
       [] s = "howToUse" ->
            {"How To - Students", "How To - Teachers", "How To - Admins"}
       [] s = "faq" -> {"FAQ"}
       [] s = "technicalRequirements" -> {"Technical Requirements"}
       [] s = "dataModels" -> {"Data Models"}
       [] s = "userManagement" -> {"User Management"}
       [] s = "courseManagement" -> {"Course Management"}
       [] s = "certificateSystem" -> {"Certificate System", "Certificate API"}
       [] s = "collaborativeWhiteboard" -> {"Whiteboard"}
       [] s = "audioVideoClasses" -> {"Audio/Video"}
       [] s = "communityPortal" -> {"Community"}
       [] s = "donationSystem" -> {"Donations"}
       [] s = "seminarManagement" -> {"Seminars"}
       [] s = "doubtResolution" -> {"Doubts"}
       [] s = "digitalLibrary" -> {"Library"}]

\* the section s of the document kb ({} when it is missing)
SectionOf(kb, s) ==
  IF s \in FeatureGroups THEN Get(Get(kb, "features", <<>>), s, <<>>)
  ELSE Get(kb, s, <<>>)

\* the sections of kb that are missing or empty
MissingOrEmpty(kb) ==
  {s \in DOMAIN SectionCategories : DOMAIN SectionOf(kb, s) = {}}

\* C15: for every section of the knowledge document (the top-level ones and
\* each feature group) that is missing or empty, create_chunks emits no
\* chunk of that section
C15_MissingSectionNoChunks ==
  call.op = "create_chunks" =>
    \A s \in MissingOrEmpty(kb_file.data) :
      \A i \in DOMAIN call.chunks :
        call.chunks[i].category \notin SectionCategories[s]

\* C16: on every document that lacks any sections and any fields of the
\* sections it has, create_chunks ends without an error and returns a list
\* of chunks, each with a category of the flattener and a text
C16_PartialDocumentsChunked ==
  call.op = "create_chunks" =>
    /\ call.error = ""
    /\ DOMAIN call.chunks = 1..Len(call.chunks)
    /\ \A i \in DOMAIN call.chunks :
         /\ DOMAIN call.chunks[i] = {"category", "text"}
         /\ call.chunks[i].category
              \in UNION {SectionCategories[s] : s \in DOMAIN SectionCategories}
         /\ Len(call.chunks[i].text) > 0

\* the flattener has returned on a document that lacks sections and, in a
\* section it has, a field: the FAQ entry without its answer gave a chunk
C16_Witness ==
  /\ call.op = "create_chunks"
  /\ {"project", "features"} \cap DOMAIN kb_file.data = {}
  /\ "faq" \in DOMAIN kb_file.data
  /\ \E i \in DOMAIN kb_file.data.faq :
       "answer" \notin DOMAIN kb_file.data.faq[i]
  /\ \E i \in DOMAIN call.chunks : call.chunks[i].text = "Q: Is it free? A: "

RequestOf(t) == GeneratorRequest(threads'[t].messages, threads'[t].prompt)

\* C24: in every chat call the session history has 2 * min(4, len(history))
\* messages with the roles user, model, user, model, ... in the order of
\* the turns; the prompt is sent once, as the message to the session, and is
\* no message of the session history; generate_content is never called
C24_SessionHistory ==
  [][\A t \in Threads :
       SendsBy(t) =>
         LET h == HistoryOf(threads[t].chatbot[1])
             n == Min(4, Len(h))
             req == RequestOf(t)
         IN  /\ req.api = "start_chat"
             /\ Len(req.history) = 2 * n
             /\ \A i \in 1..(2 * n) :
                  /\ req.history[i].role = IF i % 2 = 1 THEN "user" ELSE "model"
                  /\ req.history[i].parts =
                       << IF i % 2 = 1 THEN h[Len(h) - n + (i + 1) \div 2].user
                          ELSE h[Len(h) - n + i \div 2].assistant >>
                  /\ req.history[i].parts # req.sent
             /\ req.sent = << threads'[t].prompt >>
             /\ threads'[t].prompt # ""]_vars

\* chat is awaiting the generator with three turns stored: six messages went
\* into the session and the prompt was sent to it
C24_Witness ==
  \E t \in Threads :
    /\ threads[t].pc = "generating"
    /\ Len(HistoryOf(threads[t].chatbot[1])) = 3
    /\ GeneratorRequest(threads[t].messages, threads[t].prompt).api = "start_chat"
    /\ Len(GeneratorRequest(threads[t].messages, threads[t].prompt).history) = 6
    /\ GeneratorRequest(threads[t].messages, threads[t].prompt).sent
         = << threads[t].prompt >>

\* get_chatbot of thread t ends in this step with the exception that
\* Chatbot() or Retriever() raised
FailsConstruction(t) ==
  /\ threads[t].pc \in {"Chatbot.__init__", "Retriever.__init__"}
  /\ threads'[t].pc = "idle"

\* thread t enters get_chatbot in this step while the singleton is unset
EntersUnset(t) ==
  /\ threads[t].pc = "idle"
  /\ threads'[t].pc # "idle"
  /\ _chatbot_instance = <<>>

ConstructionErrors ==
  {"ValueError: GEMINI_API_KEY not found in environment variables",
   "FileNotFoundError: knowledge_base.json",
   "ValueError: empty vocabulary"}

\* C25: when the construction of the Chatbot fails (no API key, or the
\* Retriever cannot be initialized) get_chatbot raises and the chatbot
\* singleton stays unset, so that the next get_chatbot constructs again;
\* without an API key no Retriever is ever constructed
C25_FailedConstructionRetried ==
  [][\A t \in Threads :
       /\ FailsConstruction(t) => threads'[t].result \in ConstructionErrors
       /\ FailsConstruction(t) => _chatbot_instance' = <<>>
       /\ FailsConstruction(t) => chatbots' = <<>>
       /\ EntersUnset(t) => threads'[t].pc = "Chatbot.__init__"
       /\ GEMINI_API_KEY = "" => retrievers' = <<>>
       /\ GEMINI_API_KEY = "" => _retriever_instance' = <<>>
       /\ GEMINI_API_KEY = "" => threads'[t].pc # "Retriever.__init__"]_vars

\* a request has failed in the construction of the Retriever (the API key
\* is set, the knowledge base cannot be read): get_chatbot raised and both
\* singletons are unset
C25_Witness ==
  /\ GEMINI_API_KEY # ""
  /\ ~kb_file.exists
  /\ _chatbot_instance = <<>>
  /\ _retriever_instance = <<>>
  /\ \E t \in Threads :
       /\ threads[t].pc = "idle"
       /\ threads[t].result = "FileNotFoundError: knowledge_base.json"

\* the caller holds a list from get_history before and after this step
Holds(r) == call.ref = << r >> /\ call'.ref = << r >>

\* the list the singleton Chatbot's history is bound to
LiveList == chatbots[_chatbot_instance[1]].history

\* C26: get_history returns the list self.history is bound to, not a copy.
\* While the caller holds it, a turn that a later chat appends is in it;
\* clear_history leaves it as it was and binds the history to another, empty
\* list; from then on no chat changes the list the caller holds
C26_HistoryReference ==
  [][/\ (call'.op = "get_history" /\ call' # call) =>
          call'.ref = << LiveList >>
      /\ \A r \in ListIds :
          /\ (Holds(r) /\ r = LiveList /\ ReturnsFromChat(1)
                /\ ~IsApology(threads'[1].result))
               => lists'[r] = Append(lists[r], TurnOf(1))
          /\ (Holds(r) /\ r = LiveList /\ ClearsBy(1))
               => lists'[r] = lists[r]
          /\ (Holds(r) /\ r = LiveList /\ ClearsBy(1))
               => (LiveList' # r /\ lists'[LiveList'] = <<>>)
          /\ (Holds(r) /\ _chatbot_instance # <<>> /\ r # LiveList)
               => lists'[r] = lists[r]]_vars

\* the caller holds a list of two turns from before a clear_history, and the
\* history has since got one new turn that the held list does not show
C26_Witness ==
  /\ call.op = "get_history"
  /\ _chatbot_instance # <<>>
  /\ call.ref # << LiveList >>
  /\ Len(lists[call.ref[1]]) = 2
  /\ Len(lists[LiveList]) = 1

\* C21: POST /api/chat answers a request with an empty message with status
\* 400 and the detail "No message provided"
C21_EmptyMessageIs400 ==
  (call.op = "POST /api/chat" /\ call.query = "") =>
    (call.status = 400 /\ call.body = "No message provided")

\* the reply of a Flask handler whose call ended with result: the except
\* clause answers an exception with its text and status 500 (app.py lines
\* 485-486), and a return value goes out as the response (line 483)
FlaskReply(result) ==
  IF result \in ConstructionErrors \cup {ChatTypeError}
  THEN [status |-> 500, error |-> result]
  ELSE [status |-> 200, response |-> result]

\* the handler of thread t, holding the chatbot, makes its call of chat in
\* this step
CallsChat(t) ==
  /\ threads[t].pc = "call"
  /\ threads[t].op = "chat"
  /\ threads'[t].pc # "call"

\* C22: POST /chat with a message that is not empty calls the chatbot, whose
\* chat builds the prompt and asks the generator, and the handler answers
\* with the response in a success reply; a reply of the generator is
\* recorded as a turn of the history
C22_FlaskChatAnswers ==
  [][\A t \in Threads :
       /\ CallsChat(t) => threads'[t].pc = "generating"
       /\ (threads[t].op = "chat" /\ threads[t].pc \in {"call", "generating"}
             /\ threads'[t].pc = "idle")
            => FlaskReply(threads'[t].result).status = 200
       /\ (ReturnsFromChat(t) /\ ~IsApology(threads'[t].result))
            => \E c \in Surviving :
                 lists'[chatbots'[c].history]
                   = Append(lists[chatbots[c].history], TurnOf(t))]_vars

\* the loop reads a line in this step
ReadsLine == call'.op = "input" /\ call'.seq = call.seq + 1

\* the line read in this step, stripped
Typed == strip(call'.query)

\* the step leaves everything but the record of the line as it was
NothingDone ==
  UNCHANGED << kb_file, GEMINI_API_KEY, _retriever_instance,
               _chatbot_instance, retrievers, chatbots, lists, threads >>

\* the program asks the generator in this step
Asks == threads[1].pc # "generating" /\ threads'[1].pc = "generating"

\* what C23 asks of every step of the loop
LoopStep ==
  /\ (ReadsLine /\ lower(Typed) = "clear") =>
       (HistoryOf(1)' = <<>> /\ threads'[1].pc = "call")
  /\ (ReadsLine /\ Typed = "") => NothingDone
  /\ (ReadsLine /\ lower(Typed) = "quit") =>
       (threads'[1].pc = "exited" /\ lists' = lists)
  /\ (ReadsLine /\ Typed # "" /\ lower(Typed) \notin {"quit", "clear"}) =>
       (Asks /\ threads'[1].msg = Typed /\ lists' = lists)
  /\ Asks => (ReadsLine /\ Typed # "" /\ lower(Typed) \notin {"quit", "clear"})
  /\ (threads[1].pc = "generating" /\ lists' # lists) =>
       (/\ threads'[1].pc = "call"
        /\ HistoryOf(1)' = Append(HistoryOf(1),
                             [user |-> threads[1].msg,
                              assistant |-> threads'[1].result]))

\* C23: in the command-line loop "clear" in any letter case empties the
\* conversation and asks the generator nothing; a blank line changes nothing
\* and asks nothing; "quit" in any letter case ends the loop; every other
\* line is passed, stripped, to chat, which asks the generator once: the
\* generator is asked only in the step that reads such a line, and the
\* history changes only by the turn of that line or by a clear
C23_CommandLoop == [][LoopStep]_vars

\* the loop has ended on the line " QUIT " after a chat whose line was typed
\* with blanks around it and stored without them
C23_Witness ==
  /\ threads[1].pc = "exited"
  /\ call.op = "input"
  /\ call.query = " QUIT "
  /\ call.seq = 2
  /\ _chatbot_instance # <<>>
  /\ Len(lists[LiveList]) = 1
  /\ lists[LiveList][1].user = "whiteboard tools"

====
